---- MODULE Spec2Model ----
(***************************************************************************)
(* Model of Run_GamingNetworkOptimization_Admin.py: the adapter query,     *)
(* the interactive adapter selection loop and the elevated launch of the   *)
(* companion PowerShell script.                                            *)
(*                                                                         *)
(* Strings that the program inspects or builds (the operator's input       *)
(* lines, the adapter GUIDs, the comma separated parameter) are sequences  *)
(* of one-character strings, so that strip(), lower(), int() and           *)
(* ",".join() are computed character by character.  Message texts that the *)
(* program only prints are represented by tags.                            *)
(*                                                                         *)
(* input() is modelled as returning a line; end of input and keyboard      *)
(* interrupts, which abort the interpreter, are outside the model.         *)
(***************************************************************************)
EXTENDS Integers, Sequences, FiniteSets, TLC

\* Largest number of adapters the adapter query returns in the model.
MaxAdapters == 3

\* ShellExecuteW results of 32 or less are failures (line 158).
SE_ERR_THRESHOLD == 32

\* nShowCmd argument of ShellExecuteW, SW_SHOWNORMAL (line 155).
SW_SHOWNORMAL == 1

\* TARGET_PS_SCRIPT_NAME (line 8); the path is the script's directory joined
\* with this name (line 122) and is handled as one unit of text.
TARGET_PS_SCRIPT_NAME == "GamingNetworkOptimization.ps1"

VARIABLES
    pc,                 \* position of run_script / __main__
    script_exists,      \* os.path.exists(target_ps_script_path)
    adapters,           \* run_script's adapters: [kind, items]
    selected_guids,     \* select_guids_for_tweaks's local list
    prompt_message,     \* which selection prompt the last iteration showed
    choice_str,         \* the last line read, stripped and lower-cased
    add_more_asked,     \* the last iteration issued the inline yes/no prompt
    add_more_choice,    \* the answer read by that prompt
    notices,            \* what the last iteration printed
    rs_selected_guids,  \* run_script's selected_guids (the Selector's result)
    shell_call,         \* the ShellExecuteW call, once issued
    ret,                \* what ShellExecuteW returned or that it raised
    dialogs,            \* MessageBoxW calls, in order
    console             \* run_script's and __main__'s printed messages

vars == <<pc, script_exists, adapters, selected_guids, prompt_message,
          choice_str, add_more_asked, add_more_choice, notices,
          rs_selected_guids, shell_call, ret, dialogs, console>>

----------------------------------------------------------------------------
\* Text helpers.

UpperChars == <<"A","B","C","D","E","F","G","H","I","J","K","L","M",
                "N","O","P","Q","R","S","T","U","V","W","X","Y","Z">>

LowerChars == <<"a","b","c","d","e","f","g","h","i","j","k","l","m",
                "n","o","p","q","r","s","t","u","v","w","x","y","z">>

DigitChars == <<"0","1","2","3","4","5","6","7","8","9">>

WhiteSpace == {" ", "\t"}

\* str.lower() on one character.
LowerChar(c) ==
    IF \E i \in 1..Len(UpperChars) : UpperChars[i] = c
    THEN LowerChars[CHOOSE i \in 1..Len(UpperChars) : UpperChars[i] = c]
    ELSE c

\* str.lower()
Lower(s) == [i \in 1..Len(s) |-> LowerChar(s[i])]

RECURSIVE LStrip(_)
LStrip(s) ==
    IF s # <<>> /\ s[1] \in WhiteSpace THEN LStrip(Tail(s)) ELSE s

RECURSIVE RStrip(_)
RStrip(s) ==
    IF s # <<>> /\ s[Len(s)] \in WhiteSpace
    THEN RStrip(SubSeq(s, 1, Len(s) - 1))
    ELSE s

\* str.strip()
Strip(s) == RStrip(LStrip(s))

IsDigit(c) == \E i \in 1..Len(DigitChars) : DigitChars[i] = c

DigitVal(c) == (CHOOSE i \in 1..Len(DigitChars) : DigitChars[i] = c) - 1

RECURSIVE DigitsValue(_)
DigitsValue(s) ==
    IF s = <<>> THEN 0
    ELSE DigitsValue(SubSeq(s, 1, Len(s) - 1)) * 10 + DigitVal(s[Len(s)])

\* int(choice_str) of an already stripped string: an optional sign and
\* decimal digits; anything else raises ValueError (ok = FALSE).
ParseInt(s) ==
    LET signed == s # <<>> /\ s[1] \in {"+", "-"}
        body   == IF signed THEN Tail(s) ELSE s
        ok     == body # <<>> /\ \A i \in 1..Len(body) : IsDigit(body[i])
    IN  [ok  |-> ok,
         val |-> IF ~ok THEN 0
                 ELSE IF signed /\ s[1] = "-" THEN 0 - DigitsValue(body)
                 ELSE DigitsValue(body)]

\* guid in selected_guids
Contains(seq, x) == \E i \in 1..Len(seq) : seq[i] = x

JoinTrailing(sep, items) ==
    LET F[i \in 0..Len(items)] ==
            IF i = 0 THEN <<>> ELSE F[i - 1] \o items[i] \o sep
    IN  F[Len(items)]

\* sep.join(items)
Join(sep, items) ==
    LET F[i \in 0..Len(items)] ==
            IF i = 0 THEN <<>>
            ELSE IF i = 1 THEN items[1]
            ELSE F[i - 1] \o sep \o items[i]
    IN  F[Len(items)]

----------------------------------------------------------------------------
\* The environment: what the adapter query can return and what the operator
\* can type.

\* InterfaceGuid values (abbreviated); Windows gives each adapter its own.
GuidPool == { <<"a","1">>, <<"b">>, <<"c","-","2">>, <<"d","d">> }

\* One element of the query's JSON output.  Name and InterfaceDescription
\* are only printed and are left out.
AdapterRecords == [InterfaceGuid : GuidPool]

\* The JSON arrays the query can produce: up to MaxAdapters adapters with
\* pairwise different GUIDs, the empty array included.
AdapterLists ==
    UNION { { l \in [1..n -> AdapterRecords] :
                \A i, j \in 1..n : l[i] = l[j] => i = j } : n \in 0..MaxAdapters }

\* The three except clauses of get_network_adapters_from_powershell.
ErrorKinds == {"CalledProcessError", "JSONDecodeError", "Exception"}

\* Lines the operator can type at a selection prompt.
RawChoices ==
    { <<"d","o","n","e">>, <<" ","D","o","n","e"," ">>,
      <<"s","k","i","p">>, <<"S","K","I","P","\t">>,
      <<>>, <<"a","b","c">>, <<"y","e","s">>, <<"1",".","5">>,
      <<"-","1">>, <<"+","2">>, <<" ","1"," ">>, <<"1","0">> }
    \cup { <<DigitChars[n + 1]>> : n \in 0..(MaxAdapters + 1) }

\* Lines the operator can type at the yes/no prompt.
RawAnswers ==
    { <<"y","e","s">>, <<"y">>, <<" ","Y"," ">>, <<"n","o">>, <<>> }

\* Values ShellExecuteW can return (a C int).
RetCodes == {-1, 0, 1, 2, 3, 4, 5, 8, 31, 32, 33, 42, 1223}

----------------------------------------------------------------------------
\* get_network_adapters_from_powershell

None == [kind |-> "None", items |-> <<>>]

List(items) == [kind |-> "list", items |-> items]

Dialog(title, cause) == [title |-> title, cause |-> cause]

\* kind is how subprocess.run / json.loads ended: one of ErrorKinds, or
\* "object" (json.loads gave a dict, data) or "array" (a list, data).
get_network_adapters_from_powershell(kind, data) ==
    IF kind \in ErrorKinds
    THEN [result |-> None,
          dialogs |-> <<Dialog("Adapter Enumeration Error", kind)>>]
    ELSE IF kind = "object"
    THEN [result |-> List(<<data>>), dialogs |-> <<>>]
    ELSE [result |-> List(data), dialogs |-> <<>>]

----------------------------------------------------------------------------
\* select_guids_for_tweaks

S_done == <<"d","o","n","e">>
S_skip == <<"s","k","i","p">>
S_yes  == <<"y","e","s">>
S_y    == <<"y">>

\* `not adapters` (line 52): None and the empty list alike.
NoAdapters(a) == a.kind = "None" \/ a.items = <<>>

\* What one pass of the while loop yields: the list, how the pass ends
\* ("continue", "break" = leave the loop and return the list,
\* "return_empty" = return []), what it printed, and the inline prompt.
Pass(selected, ctl, printed) ==
    [selected |-> selected, ctl |-> ctl, notices |-> printed,
     asked |-> FALSE, answer |-> <<>>]

ControlInputSkipKeeps(choice, selected) ==
    IF choice = S_done \/ choice = S_skip
    THEN IF selected # <<>>
         THEN Pass(selected, "break", {})
         ELSE Pass(selected, "return_empty", {"none_selected"})
    ELSE Pass(selected, "continue", {})

\* Lines 78-86, for choice in {'done', 'skip'}.
ControlInput(choice, selected) ==
    IF choice = S_done
    THEN IF selected # <<>>
         THEN Pass(selected, "break", {})
         ELSE Pass(selected, "return_empty", {"none_selected"})
    ELSE Pass(selected, "return_empty", {"skipping"})

\* Line 89.
InRange(n, items) == 1 <= n /\ n <= Len(items)

AddGuidNoCheck(selected, guid) ==
    [selected |-> Append(selected, guid), notice |-> "added"]

\* Lines 92-96.
AddGuid(selected, guid) ==
    IF ~Contains(selected, guid)
    THEN [selected |-> Append(selected, guid), notice |-> "added"]
    ELSE [selected |-> selected, notice |-> "already_selected"]

AllSelectedNever(selected, items) == Len(selected) > Len(items)

\* Line 98.
AllSelected(selected, items) == Len(selected) = Len(items)

\* Line 102: `not selected_guids`, read after the append of line 93.
IsFirstSelection(selected) == selected = <<>>

\* Line 104.
Affirmative(answer) == answer \in {S_yes, S_y}

\* Lines 106-107.
InvalidSelection(selected) == Pass(selected, "continue", {"invalid_selection"})

InvalidInputBreaks(selected) == Pass(selected, "break", {"invalid_input"})

\* Lines 108-109.
InvalidInput(selected) == Pass(selected, "continue", {"invalid_input"})

\* Lines 88-107, for a choice that int() accepts.
NumberInput(items, selected, choice_num, rawAnswer) ==
    IF InRange(choice_num, items)
    THEN LET chosen_adapter == items[choice_num]
             chosen_guid    == chosen_adapter.InterfaceGuid
             added          == AddGuid(selected, chosen_guid)
         IN  IF AllSelected(added.selected, items)
             THEN Pass(added.selected, "break", {added.notice, "all_selected"})
             ELSE IF IsFirstSelection(added.selected)
             THEN LET add_more_choice_ == Lower(Strip(rawAnswer))
                  IN  [selected |-> added.selected,
                       ctl      |-> IF Affirmative(add_more_choice_)
                                    THEN "continue" ELSE "break",
                       notices  |-> {added.notice},
                       asked    |-> TRUE,
                       answer   |-> add_more_choice_]
             ELSE Pass(added.selected, "continue", {added.notice})
    ELSE InvalidSelection(selected)

\* One pass of the while loop (lines 69-109) on the raw line read.
LoopBody(items, selected, raw, rawAnswer) ==
    LET choice == Lower(Strip(raw))
        parsed == ParseInt(choice)
    IN  IF choice = S_done \/ choice = S_skip
        THEN ControlInput(choice, selected)
        ELSE IF parsed.ok
        THEN NumberInput(items, selected, parsed.val, rawAnswer)
        ELSE InvalidInput(selected)

----------------------------------------------------------------------------
\* run_script

ScriptPath == <<"<script dir>", "\\", TARGET_PS_SCRIPT_NAME>>

\* Line 151.
ScriptParameters(path, csv) ==
    <<"-NoProfile", " ", "-ExecutionPolicy", " ", "Bypass", " ",
      "-File", " ", "\"">> \o path \o
    <<"\"", " ", "-TargetGuidsCsv", " ", "\"">> \o csv \o <<"\"">>

NoCall == [called |-> FALSE, lpOperation |-> "", lpFile |-> "",
           lpParameters |-> <<>>, nShowCmd |-> 0]

NoRet == [returned |-> FALSE, raised |-> FALSE, code |-> 0]

LaunchFailedStrict(r) == r < SE_ERR_THRESHOLD

\* Line 158.
LaunchFailed(r) == r <= SE_ERR_THRESHOLD

\* Lines 161-166.
ErrorCause(r) ==
    IF r = 0 THEN "out_of_resources"
    ELSE IF r = 2 THEN "file_not_found"
    ELSE IF r = 3 THEN "path_not_found"
    ELSE IF r = 5 THEN "access_denied"
    ELSE IF r = 1223 THEN "user_cancelled"
    ELSE "generic"

AbortOnNoneMissing(a) == FALSE

\* Line 136: `adapters is None`.
AbortOnNone(a) == a.kind = "None"

Init ==
    /\ pc = "start"
    /\ script_exists \in BOOLEAN
    /\ adapters = [kind |-> "unset", items |-> <<>>]
    /\ selected_guids = <<>>
    /\ prompt_message = "none"
    /\ choice_str = <<>>
    /\ add_more_asked = FALSE
    /\ add_more_choice = <<>>
    /\ notices = {}
    /\ rs_selected_guids = <<>>
    /\ shell_call = NoCall
    /\ ret = NoRet
    /\ dialogs = <<>>
    /\ console = {}

CheckScriptNoReturn ==
    /\ pc = "start"
    /\ IF ~script_exists
       THEN /\ dialogs' = Append(dialogs, Dialog("Script Not Found", "script_not_found"))
            /\ console' = console \cup {"script_not_found"}
       ELSE UNCHANGED <<dialogs, console>>
    /\ pc' = "enumerate"
    /\ UNCHANGED <<script_exists, adapters, selected_guids, prompt_message,
                   choice_str, add_more_asked, add_more_choice, notices,
                   rs_selected_guids, shell_call, ret>>

\* Lines 113-132.
CheckScript ==
    /\ pc = "start"
    /\ IF ~script_exists
       THEN /\ dialogs' = Append(dialogs, Dialog("Script Not Found", "script_not_found"))
            /\ console' = console \cup {"script_not_found"}
            /\ pc' = "returned"
       ELSE /\ pc' = "enumerate"
            /\ UNCHANGED <<dialogs, console>>
    /\ UNCHANGED <<script_exists, adapters, selected_guids, prompt_message,
                   choice_str, add_more_asked, add_more_choice, notices,
                   rs_selected_guids, shell_call, ret>>

\* Lines 135-140 with the call of line 135 and the entry of
\* select_guids_for_tweaks (lines 52-68), up to its first prompt.
Enumerated(kind, data) ==
    LET got == get_network_adapters_from_powershell(kind, data)
    IN  /\ adapters' = got.result
        /\ dialogs' = dialogs \o got.dialogs
        /\ IF AbortOnNone(got.result)
           THEN /\ console' = console \cup {"could_not_retrieve"}
                /\ pc' = "returned"
                /\ UNCHANGED <<notices, rs_selected_guids>>
           ELSE IF NoAdapters(got.result)
           THEN /\ notices' = {"no_adapters"}
                /\ rs_selected_guids' = <<>>
                /\ pc' = "launch"
                /\ UNCHANGED console
           ELSE /\ notices' = {"listing"}
                /\ pc' = "select"
                /\ UNCHANGED <<console, rs_selected_guids>>
        /\ selected_guids' = <<>>
        /\ UNCHANGED <<script_exists, prompt_message, choice_str,
                       add_more_asked, add_more_choice, shell_call, ret>>

GetAdapters ==
    /\ pc = "enumerate"
    /\ \/ \E kind \in ErrorKinds : Enumerated(kind, <<>>)
       \/ \E rec \in AdapterRecords : Enumerated("object", rec)
       \/ \E l \in AdapterLists : Enumerated("array", l)

\* One pass of the while loop of select_guids_for_tweaks (lines 69-111);
\* on leaving the loop the result reaches run_script (line 140).
SelectorIteration ==
    /\ pc = "select"
    /\ \E raw \in RawChoices, rawAnswer \in RawAnswers :
         LET r == LoopBody(adapters.items, selected_guids, raw, rawAnswer)
         IN  /\ prompt_message' = IF selected_guids = <<>> THEN "first" ELSE "another"
             /\ choice_str' = Lower(Strip(raw))
             /\ selected_guids' = r.selected
             /\ notices' = r.notices
             /\ add_more_asked' = r.asked
             /\ add_more_choice' = r.answer
             /\ IF r.ctl = "continue"
                THEN /\ pc' = "select"
                     /\ UNCHANGED rs_selected_guids
                ELSE /\ pc' = "launch"
                     /\ rs_selected_guids' =
                            IF r.ctl = "break" THEN r.selected ELSE <<>>
    /\ UNCHANGED <<script_exists, adapters, shell_call, ret, dialogs, console>>

\* Lines 141-181.  raised: the ShellExecuteW call raised an exception.
Launch ==
    /\ pc = "launch"
    /\ \E raised \in BOOLEAN, code \in RetCodes :
         LET guids_csv_for_ps  == Join(<<",">>, rs_selected_guids)
             script_parameters == ScriptParameters(ScriptPath, guids_csv_for_ps)
             announced == console \cup
                 {"attempting",
                  IF rs_selected_guids # <<>> THEN "tweaks_for_guids" ELSE "no_guids"}
         IN  /\ shell_call' = [called |-> TRUE, lpOperation |-> "runas",
                               lpFile |-> "powershell.exe",
                               lpParameters |-> script_parameters,
                               nShowCmd |-> SW_SHOWNORMAL]
             /\ IF raised
                THEN /\ ret' = [returned |-> FALSE, raised |-> TRUE, code |-> 0]
                     /\ dialogs' = Append(dialogs,
                                     Dialog("Python Script Exception", "exception"))
                     /\ console' = announced \cup {"exception"}
                ELSE /\ ret' = [returned |-> TRUE, raised |-> FALSE, code |-> code]
                     /\ IF LaunchFailed(code)
                        THEN /\ dialogs' = Append(dialogs,
                                             Dialog("Launch Error", ErrorCause(code)))
                             /\ console' = announced \cup {"launch_error"}
                        ELSE /\ dialogs' = dialogs
                             /\ console' = announced \cup {"success"}
    /\ pc' = "returned"
    /\ UNCHANGED <<script_exists, adapters, selected_guids, prompt_message,
                   choice_str, add_more_asked, add_more_choice, notices,
                   rs_selected_guids>>

\* Lines 183-185.
MainFinish ==
    /\ pc = "returned"
    /\ console' = console \cup {"finished"}
    /\ pc' = "exit"
    /\ UNCHANGED <<script_exists, adapters, selected_guids, prompt_message,
                   choice_str, add_more_asked, add_more_choice, notices,
                   rs_selected_guids, shell_call, ret, dialogs>>

Next ==
    \/ CheckScript
    \/ GetAdapters
    \/ SelectorIteration
    \/ Launch
    \/ MainFinish

Spec == Init /\ [][Next]_vars

----------------------------------------------------------------------------
\* Properties.

\* The text between the quotes that follow -TargetGuidsCsv in lpParameters.
ParamValue(p) ==
    LET k == CHOOSE k \in 1..Len(p) : p[k] = "-TargetGuidsCsv"
    IN  SubSeq(p, k + 3, Len(p) - 1)

\* The fields of a text between its commas; a text without a comma is one
\* field.
SplitOnComma(s) ==
    LET F[i \in 0..Len(s)] ==
            IF i = 0 THEN << <<>> >>
            ELSE IF s[i] = "," THEN Append(F[i - 1], <<>>)
            ELSE [F[i - 1] EXCEPT ![Len(F[i - 1])] = Append(@, s[i])]
    IN  F[Len(s)]

NoDuplicates(seq) == \A i, j \in 1..Len(seq) : seq[i] = seq[j] => i = j

Ended == pc \in {"returned", "exit"}

\* C1: when the companion script file does not exist, run_script raises the
\* "Script Not Found" dialog, prints the message and returns; the adapter
\* query is never run, no prompt is shown and ShellExecuteW is never called.
C1_NoElevationWithoutScript ==
    ~script_exists =>
        /\ ~shell_call.called
        /\ adapters.kind = "unset"
        /\ prompt_message = "none"
        /\ pc # "start" =>
             /\ Ended
             /\ dialogs = <<Dialog("Script Not Found", "script_not_found")>>
             /\ "script_not_found" \in console

C1_Witness == ~script_exists /\ pc = "exit" /\ Len(dialogs) = 1

\* C2: a return code of 1223 raises the "Launch Error" dialog with the
\* user-cancelled message and the success message is not printed.
C2_CancelledReported ==
    (ret.returned /\ ret.code = 1223) =>
        /\ dialogs = <<Dialog("Launch Error", "user_cancelled")>>
        /\ "success" \notin console

\* The cause the claim gives for each failing return code.
C3_Cause(r) ==
    CASE r = 0 -> "out_of_resources"
      [] r = 2 -> "file_not_found"
      [] r = 3 -> "path_not_found"
      [] r = 5 -> "access_denied"
      [] OTHER -> "generic"

C4_NullOrEmptyAborts ==
    (adapters.kind = "None" \/ adapters = List(<<>>)) => ~shell_call.called

\* C4 as amended: a None result aborts the run (the enumeration dialog, the
\* abort message, no prompt, no ShellExecuteW call); an empty list is taken
\* as "no adapters": no prompt is shown, the SelectionSet is empty and the
\* ShellExecuteW call, once made, carries an empty parameter value.
C4_NullAbortsEmptyLaunches ==
    /\ adapters.kind = "None" =>
         /\ Ended
         /\ ~shell_call.called
         /\ prompt_message = "none"
         /\ Len(dialogs) = 1
         /\ dialogs[1].title = "Adapter Enumeration Error"
         /\ "could_not_retrieve" \in console
    /\ adapters = List(<<>>) =>
         /\ pc \in {"launch", "returned", "exit"}
         /\ prompt_message = "none"
         /\ rs_selected_guids = <<>>
         /\ Ended => shell_call.called /\ ParamValue(shell_call.lpParameters) = <<>>

C4_Witness ==
    /\ adapters.kind = "None"
    /\ pc = "exit"
    /\ ~shell_call.called

\* C5: when the first successful selection of a call does not cover every
\* adapter, the inline "add another?" prompt is issued before the next
\* selection prompt, and an answer other than yes/y ends the loop with the
\* one-element SelectionSet.
C5_AddAnotherPrompt ==
    ( /\ prompt_message = "first"
      /\ "added" \in notices
      /\ Len(selected_guids) < Len(adapters.items) ) =>
        /\ add_more_asked
        /\ ~Affirmative(add_more_choice) =>
             /\ pc # "select"
             /\ rs_selected_guids = selected_guids
             /\ Len(rs_selected_guids) = 1

\* The adapter index a normalised input line denotes, 0 when it denotes none.
IndexOf(choice) ==
    LET parsed == ParseInt(choice)
    IN  IF choice \notin {S_done, S_skip} /\ parsed.ok
           /\ 1 <= parsed.val /\ parsed.val <= Len(adapters.items)
        THEN parsed.val ELSE 0

\* C6: the SelectionSet never holds an identifier twice; entering the index
\* of an adapter whose identifier is already selected leaves the list as it
\* was and prints the "already selected" notice.
C6_NoDuplicateSelection ==
    [][ /\ NoDuplicates(selected_guids')
        /\ NoDuplicates(rs_selected_guids')
        /\ ( /\ pc = "select"
             /\ IndexOf(choice_str') # 0
             /\ Contains(selected_guids,
                         adapters.items[IndexOf(choice_str')].InterfaceGuid) ) =>
               /\ selected_guids' = selected_guids
               /\ notices' = {"already_selected"}
      ]_vars

C6_Witness ==
    /\ "already_selected" \in notices
    /\ Len(selected_guids) = 2
    /\ IndexOf(choice_str) = 1

\* C7: the pass that brings the selection to cover every adapter ends the
\* loop at once, with no yes/no prompt and no further selection prompt, and
\* the Selector returns all identifiers, the last one selected last and the
\* earlier ones in the order they had.
C7_AllSelectedEndsLoop ==
    [][ ( /\ pc = "select"
          /\ { selected_guids'[i] : i \in 1..Len(selected_guids') }
               = { adapters.items[i].InterfaceGuid : i \in 1..Len(adapters.items) } ) =>
            /\ pc' = "launch"
            /\ ~add_more_asked'
            /\ "all_selected" \in notices'
            /\ IndexOf(choice_str') # 0
            /\ selected_guids' =
                 Append(selected_guids,
                        adapters.items[IndexOf(choice_str')].InterfaceGuid)
            /\ rs_selected_guids' = selected_guids'
      ]_vars

C7_Witness ==
    /\ pc = "launch"
    /\ "all_selected" \in notices
    /\ Len(rs_selected_guids) = 3
    /\ Len(adapters.items) = 3

\* C8: "skip" at a selection prompt, also after adapters were selected,
\* makes the Selector return the empty list at once, and the parameter of
\* the following ShellExecuteW call carries no identifier.
C8_SkipReturnsEmpty ==
    [][ /\ (pc = "select" /\ choice_str' = S_skip) =>
              /\ pc' = "launch"
              /\ rs_selected_guids' = <<>>
              /\ ~add_more_asked'
        /\ (pc = "launch" /\ choice_str = S_skip /\ prompt_message # "none") =>
              /\ shell_call'.called
              /\ ParamValue(shell_call'.lpParameters) = <<>>
      ]_vars

C8_Witness ==
    /\ choice_str = S_skip
    /\ prompt_message = "another"
    /\ selected_guids # <<>>
    /\ shell_call.called
    /\ ParamValue(shell_call.lpParameters) = <<>>

\* C9: the value of -TargetGuidsCsv handed to ShellExecuteW is the empty
\* text when nothing was selected; otherwise it has no leading and no
\* trailing comma and its comma separated fields are exactly the
\* identifiers the Selector returned, in their order.
C9_CsvParameter ==
    shell_call.called =>
        LET v == ParamValue(shell_call.lpParameters)
        IN  /\ rs_selected_guids = <<>> => v = <<>>
            /\ rs_selected_guids # <<>> =>
                 /\ v # <<>>
                 /\ v[1] # ","
                 /\ v[Len(v)] # ","
                 /\ SplitOnComma(v) = rs_selected_guids

C9_Witness ==
    /\ shell_call.called
    /\ Len(rs_selected_guids) = 2
    /\ Len(ParamValue(shell_call.lpParameters)) > 2

\* An input that is neither 'done' nor 'skip' and selects nothing new: not
\* an integer, an integer out of range, or the index of an adapter that is
\* already selected.
C10_Fruitless(choice) ==
    /\ choice \notin {S_done, S_skip}
    /\ \/ IndexOf(choice) = 0
       \/ Contains(selected_guids, adapters.items[IndexOf(choice)].InterfaceGuid)

\* C10: the loop is left only on 'done', on 'skip', when every adapter is
\* selected, or on a negative answer to the yes/no prompt; an out-of-range
\* integer, a non-integer or the index of an already selected adapter
\* leaves the loop running and the SelectionSet unchanged.
C10_LoopExits ==
    [][ pc = "select" =>
          /\ pc' # "select" =>
               \/ choice_str' \in {S_done, S_skip}
               \/ Len(selected_guids') = Len(adapters.items)
               \/ add_more_asked' /\ ~Affirmative(add_more_choice')
          /\ C10_Fruitless(choice_str') =>
               /\ pc' = "select"
               /\ selected_guids' = selected_guids
               /\ rs_selected_guids' = rs_selected_guids
               /\ ~shell_call'.called
      ]_vars

C10_Witness ==
    /\ pc = "select"
    /\ notices = {"invalid_input"}
    /\ prompt_message = "another"
    /\ Len(selected_guids) = 1

====
